---------------------------- MODULE Spec2Model ----------------------------
(***************************************************************************)
(* Weather_Upload_RPi: the main loop of Weather_Station.py and the watchdog *)
(* of watchdog_mailgun.py.                                                 *)
(*                                                                         *)
(* One 8-byte ISS packet at a time is read from the serial port, checked   *)
(* and decoded by decodeRawData into the weather state (the suntec object  *)
(* and the rain-counter globals); the main loop counts consecutive CRC     *)
(* failures and flushes/reopens the serial port when they pile up, writes  *)
(* a heartbeat to the status file, starts a new day and uploads.  The      *)
(* watchdog reads the status file and counts, reports and reboots.         *)
(*                                                                         *)
(* Units.  Rain amounts are integers in hundredths of an inch (one bucket  *)
(* tip = 1).  A rain rate is a pair <<num, den>> standing for num/den      *)
(* inches per hour.  Time is in whole seconds.                             *)
(*                                                                         *)
(* WU_decodeData and weatherData_cls are imported by Weather_Station.py    *)
(* but are not among the sources.  A packet therefore carries, next to its *)
(* first byte, the value each WU_decodeData function returns for it, so    *)
(* that every combination of decoder results is an input; the fields and   *)
(* methods of the weatherStation class follow the specification's data     *)
(* model (a no-data sentinel per field, dew point from temperature and     *)
(* humidity, wind chill from temperature and wind speed).                  *)
(***************************************************************************)
EXTENDS Integers, Sequences, FiniteSets, TLC

\* ------------------------------------------------------------------ bounds
\* Packets read per run of the decode specification (Spec).
MaxPackets == 3
\* Packets read per run of the field specification (FieldSpec).
MaxFieldPackets == 2
\* Packets read per run of the link-health specification (LinkSpec).
MaxLinkPackets == 25
\* Seconds of clock the decode specification lets pass.
MaxElapsed == 31
\* Seconds of clock the link-health specification lets pass.
MaxLinkElapsed == 62
\* Day changes per run.
MaxMidnights == 1
\* time.time() when the main loop is entered (any value of a running clock
\* that is further from 0 than every interval the programs compare it with).
StartTime == 2000
\* Packets read per run of the watchdog specification (WatchSpec).
MaxWatchPackets == 3
\* Seconds of clock the watchdog specification lets pass.
MaxWatchElapsed == 903
\* Runs of the watchdog per run of the watchdog specification.
MaxChecks == 3
\* Packets read, seconds of clock, in the hourly specification.
MaxHourPackets == 4
MaxHourElapsed == 3601
\* Packets read, seconds of clock, runs of the watchdog, in the alert
\* specification.
MaxAlertPackets == 2
MaxAlertElapsed == 2100
MaxAlertChecks == 4
\* The largest daily rain total the download returns, in hundredths of an inch.
MaxDailyRain == 60

\* ------------------------------------------------------- program constants
CRC_FAIL_THRESHOLD == 12
CRC_RESET_COOLDOWN == 60
ISS_STATION_ID == 1
ISS_WIND_SPEED == 1
ISS_CAP_VOLTS == 2
ISS_UV_INDEX == 4
ISS_RAIN_SECONDS == 5
ISS_SOLAR_RAD == 6
ISS_OUT_TEMP == 8
ISS_WIND_GUST == 9
ISS_HUMIDITY == 10
ISS_RAIN_COUNT == 14
\* "weatherStation class initially sets these to -100 for No Data yet"
NO_DATA == -100
ERR_INVALID_DATA == -102
UPLOAD_FREQUENCY_SECONDS == 5
WATCHDOG_HEARTBEAT_SECONDS == 30
\* watchdog_mailgun.py
STALE_UPLOAD_SECONDS == 900
STALE_HEARTBEAT_SECONDS == 180
MAX_FAILURES_BEFORE_REBOOT == 3
ALERT_COOLDOWN_SECONDS == 1800
BOOT_GRACE_SECONDS == 300
REBOOT_ENABLED == TRUE

\* ------------------------------------------------------------------ inputs
\* The header nibbles that occur: the eight handled ones, ISS_WIND_SPEED
\* (defined, never dispatched on) and 0x3 (not defined at all).
Tags == {ISS_WIND_SPEED, ISS_CAP_VOLTS, 3, ISS_UV_INDEX, ISS_RAIN_SECONDS,
         ISS_SOLAR_RAD, ISS_OUT_TEMP, ISS_WIND_GUST, ISS_HUMIDITY,
         ISS_RAIN_COUNT}

\* What the payload decoder of a tag returns: accepted values, the boundary
\* of each validity test, and a rejected value.
PayloadsOf(tag) ==
    CASE tag = ISS_RAIN_COUNT   -> {-1, 2, 50, 53, 126, 128}
      [] tag = ISS_RAIN_SECONDS -> {0, 10, 900, 1000}
      [] tag = ISS_OUT_TEMP     -> {NO_DATA, 50}
      [] tag = ISS_WIND_GUST    -> {-1, 10}
      [] tag = ISS_HUMIDITY     -> {0, 50}
      [] tag = ISS_CAP_VOLTS    -> {-1, 3}
      [] tag = ISS_SOLAR_RAD    -> {-1, 100}
      [] tag = ISS_UV_INDEX     -> {-1, 4}
      [] OTHER                  -> {0}

\* The part of a packet every packet has.  printsCRC: the bytes, as Python
\* formats a bytes object into a message, show the characters CRC (the
\* bytes 0x43 0x52 0x43 in a row, e.g. in bytes 3..5).
AllHeaders ==
    [crcOk : BOOLEAN, station : {ISS_STATION_ID, 2}, windSpeed : {-1, 5},
     windDir : {-1, 90}, printsCRC : BOOLEAN]

Faults(h) ==
    (IF h.crcOk THEN 0 ELSE 1) + (IF h.station = ISS_STATION_ID THEN 0 ELSE 1)
    + (IF h.windSpeed >= 0 THEN 0 ELSE 1) + (IF h.windDir >= 0 THEN 0 ELSE 1)

\* No fault, one fault, or every fault at once; with and without the text.
Headers == {h \in AllHeaders : Faults(h) <= 1 \/ Faults(h) = 4}

Packet(h, tag, v) ==
    [byte0 |-> 16 * tag, crcOk |-> h.crcOk, station |-> h.station,
     windSpeed |-> h.windSpeed, windDir |-> h.windDir,
     printsCRC |-> h.printsCRC, payload |-> v]

Packets ==
    UNION {{Packet(h, tag, v) : h \in Headers, v \in PayloadsOf(tag)} : tag \in Tags}

\* The packets of the link-health specification: a corrupted frame, a good
\* temperature packet, and a frame rejected for its wind speed whose bytes
\* do and do not print as CRC.
LinkPackets ==
    {p \in Packets :
        /\ p.byte0 = 16 * ISS_OUT_TEMP
        /\ p.payload = 50
        /\ p.station = ISS_STATION_ID
        /\ p.windDir >= 0
        /\ (~p.crcOk => ~p.printsCRC)
        /\ (p.crcOk /\ p.windSpeed >= 0 => ~p.printsCRC)}

\* Seconds the clock may jump between two loop iterations.
TimeSteps == {30, 31}

\* The packets the decode specification reads: every tag and payload behind
\* a header that passes the checks, and one packet per faulty header.
SpecPackets ==
    {p \in Packets :
        IF Faults(p) = 0 THEN ~p.printsCRC
        ELSE p.byte0 = 16 * ISS_OUT_TEMP /\ p.payload = 50}

\* The packets of the watchdog specification: a good temperature and a
\* good humidity.
WatchPackets ==
    {p \in Packets :
        /\ p.byte0 \in {16 * ISS_OUT_TEMP, 16 * ISS_HUMIDITY}
        /\ p.payload = 50
        /\ Faults(p) = 0
        /\ ~p.printsCRC}

\* Seconds the clock may jump in the watchdog specification: three jumps
\* reach the upload limit of 900 s or pass it.
WatchSteps == {300, 301}

\* The packets of the hourly specification: the same, and a corrupted
\* frame.
HourPackets ==
    WatchPackets \cup
    {p \in Packets :
        /\ p.byte0 = 16 * ISS_OUT_TEMP
        /\ p.payload = 50
        /\ Faults(p) = 1
        /\ ~p.crcOk
        /\ ~p.printsCRC}

\* Seconds the clock may jump in the hourly specification: the hour, not
\* yet over, and just over.
HourSteps == {3600, 3601}

\* Seconds the clock may jump in the alert specification: the boot grace,
\* and what is missing to the alert cooldown or to one second less.
AlertSteps == {300, 1499, 1500}


\* ----------------------------------------------------------- WU_decodeData
\* The decoders of WU_decodeData, each returning the value the packet
\* carries for it.  A negative (or, for temperature, <= -100) value is the
\* decoder's way to report an error.
crc16_ccitt(packet) == packet.crcOk
stationID(packet) == packet.station
windSpeed(packet) == packet.windSpeed
windDirection(packet) == packet.windDir
rainCounter(packet) == packet.payload
rainRate(packet) == packet.payload
temperature(packet) == packet.payload
windGusts(packet) == packet.payload
humidity(packet) == packet.payload
capVoltage(packet) == packet.payload
solarRadiation(packet) == packet.payload
uvIndex(packet) == packet.payload

\* ---------------------------------------------------------- weatherData_cls
\* A dew point is kept as the pair <<temperature, humidity>> it was computed
\* from, a wind chill as <<temperature, wind speed>>: the formulas are left
\* uninterpreted, their inputs are what matters here.
NoDewPoint == <<NO_DATA, NO_DATA>>
NoWindChill == <<NO_DATA, NO_DATA>>
NoRainRate == <<NO_DATA, 1>>

\* The weatherStation object as Weather_Station.py leaves it before the main
\* loop: every field at its no-data value, windGust and rainToday set to 0.
weatherStation ==
    [stationID |-> ISS_STATION_ID, windSpeed |-> NO_DATA, windDir |-> NO_DATA,
     windDirFed |-> <<>>, windGust |-> 0, rainToday |-> 0,
     rainRate |-> NoRainRate, outsideTemp |-> NO_DATA, humidity |-> NO_DATA,
     dewPoint |-> NoDewPoint, windChill |-> NoWindChill,
     capacitorVolts |-> NO_DATA, solar |-> NO_DATA, uvIndex |-> NO_DATA]

\* windDirFed: the directions fed to the running average so far; whatever
\* the accumulator is, it is a function of them.
avgWindDir(s, newWindDir) == [s EXCEPT !.windDirFed = Append(@, newWindDir)]
calcWindChill(s) == [s EXCEPT !.windChill = <<s.outsideTemp, s.windSpeed>>]
calcDewPoint(s) == [s EXCEPT !.dewPoint = <<s.outsideTemp, s.humidity>>]
gotTemperatureData(s) == s.outsideTemp # NO_DATA
gotHumidityData(s) == s.humidity # NO_DATA
gotDewPointData(s) == s.dewPoint # NoDewPoint

\* ------------------------------------------------------------ decodeRawData
\* A decode message: its fixed text, and whether a packet formatted into it
\* prints the characters CRC.
Message(text, printsCRC) == [text |-> text, printsCRC |-> printsCRC]
NoMessage == Message("", FALSE)

\* What decodeRawData returns and leaves behind.
Decoded(status, message, s, old, pts) ==
    [status |-> status, message |-> message, suntec |-> s,
     g_rainCounterOld |-> old, g_rainCntDataPts |-> pts]

dataSent(packet) == packet.byte0 \div 16

fifteenMin == 60 * 15

\* Faulty variant: the rollover of the counter is not seen.
newRainNoRollover(rainCounterNew, old) == rainCounterNew - old
\* Faulty variant: the rollover is taken at 127 instead of 128.
newRainOffByOne(rainCounterNew, old) ==
    IF rainCounterNew < old
    THEN (127 - old) + rainCounterNew
    ELSE rainCounterNew - old
\* Bucket tips between two counter values; the counter runs 0..127.
newRain(rainCounterNew, old) ==
    IF rainCounterNew < old
    THEN (128 - old) + rainCounterNew
    ELSE rainCounterNew - old

\* Faulty variant: the baseline is never taken from the second reading.
RainCountNoBaseline(rainCounterNew, s, old, pts) ==
    LET tips == pts >= 2 /\ old # rainCounterNew
    IN Decoded(TRUE, Message("Rain count data processed", FALSE),
               IF tips
               THEN [s EXCEPT !.rainToday = @ + newRain(rainCounterNew, old)]
               ELSE s,
               IF tips THEN rainCounterNew ELSE old,
               pts + 1)
\* The accepted rain counter value: the baseline, the accumulation, the count.
RainCount(rainCounterNew, s, old, pts) ==
    LET old1 == IF pts = 1 THEN rainCounterNew ELSE old
        tips == pts >= 2 /\ old1 # rainCounterNew
    IN Decoded(TRUE, Message("Rain count data processed", FALSE),
               IF tips
               THEN [s EXCEPT !.rainToday = @ + newRain(rainCounterNew, old1)]
               ELSE s,
               IF tips THEN rainCounterNew ELSE old1,
               pts + 1)

\* Faulty variant: no fifteen-minute cutoff.
RainRateNoCutoff(rainSeconds) == <<36, rainSeconds>>
\* (0.01 * 3600.0) / rainSeconds below fifteen minutes, 0.0 from there on.
RainRate(rainSeconds) ==
    IF rainSeconds < fifteenMin THEN <<36, rainSeconds>> ELSE <<0, 1>>

\* Faulty variant: the dew point is computed whether or not humidity came in.
OutsideTempDewAlways(newTemp, s) ==
    calcDewPoint(calcWindChill([s EXCEPT !.outsideTemp = newTemp]))
\* The accepted temperature: the wind chill, and the dew point once there
\* is humidity data.
OutsideTemp(newTemp, s) ==
    LET s1 == calcWindChill([s EXCEPT !.outsideTemp = newTemp])
    IN IF gotHumidityData(s1) THEN calcDewPoint(s1) ELSE s1

\* The accepted humidity: the dew point once there is temperature data.
NewHumidity(newHumidity, s) ==
    LET s1 == [s EXCEPT !.humidity = newHumidity]
    IN IF gotTemperatureData(s1) THEN calcDewPoint(s1) ELSE s1

\* {dataSent:X}: one hexadecimal digit, in capitals.
HexDigit(n) ==
    CASE n < 10 -> ToString(n)
      [] n = 10 -> "A"
      [] n = 11 -> "B"
      [] n = 12 -> "C"
      [] n = 13 -> "D"
      [] n = 14 -> "E"
      [] OTHER  -> "F"

\* Faulty variant: a header nibble without a branch is taken as processed.
UnhandledAccepted(tag, s, old, pts) ==
    Decoded(TRUE, Message("Processed data type: 0x" \o HexDigit(tag), FALSE),
            s, old, pts)
\* A header nibble without a branch.
Unhandled(tag, s, old, pts) ==
    Decoded(FALSE, Message("Unhandled data type: 0x" \o HexDigit(tag), FALSE),
            s, old, pts)

\* The dispatch on the header nibble, reached with the wind fields applied.
Dispatch(packet, s, old, pts) ==
    LET tag == dataSent(packet)
        Reject(text, s1) == Decoded(FALSE, Message(text, FALSE), s1, old, pts)
        Accept(text, s1) == Decoded(TRUE, Message(text, FALSE), s1, old, pts)
    IN
    CASE tag = ISS_RAIN_COUNT ->
           IF rainCounter(packet) < 0 \/ rainCounter(packet) > 127
           THEN Reject("Invalid rain counter value", s)
           ELSE RainCount(rainCounter(packet), s, old, pts)
      [] tag = ISS_RAIN_SECONDS ->
           IF rainRate(packet) > 0
           THEN Accept("Rain rate data processed",
                       [s EXCEPT !.rainRate = RainRate(rainRate(packet))])
           ELSE Reject("Invalid rain seconds", s)
      [] tag = ISS_OUT_TEMP ->
           IF temperature(packet) > -100
           THEN Accept("Temperature data processed",
                       OutsideTemp(temperature(packet), s))
           ELSE Reject("Invalid temperature", s)
      [] tag = ISS_WIND_GUST ->
           IF windGusts(packet) >= 0
           THEN Accept("Wind gust data processed",
                       [s EXCEPT !.windGust = windGusts(packet)])
           ELSE Reject("Invalid wind gust", s)
      [] tag = ISS_HUMIDITY ->
           IF humidity(packet) > 0
           THEN Accept("Humidity data processed",
                       NewHumidity(humidity(packet), s))
           ELSE Reject("Invalid humidity", s)
      [] tag = ISS_CAP_VOLTS ->
           IF capVoltage(packet) >= 0
           THEN Accept("Capacitor voltage data processed",
                       [s EXCEPT !.capacitorVolts = capVoltage(packet)])
           ELSE Reject("Invalid cap volts", [s EXCEPT !.capacitorVolts = -1])
      [] tag = ISS_SOLAR_RAD ->
           IF solarRadiation(packet) >= 0
           THEN Accept("Solar radiation data processed",
                       [s EXCEPT !.solar = solarRadiation(packet)])
           ELSE Reject("Invalid solar radiation", s)
      [] tag = ISS_UV_INDEX ->
           IF uvIndex(packet) >= 0
           THEN Accept("UV index data processed",
                       [s EXCEPT !.uvIndex = uvIndex(packet)])
           ELSE Reject("Invalid UV index", s)
      [] OTHER -> Unhandled(tag, s, old, pts)

\* Faulty variant: the direction is stored, the running average is not fed.
WindFieldsNoAverage(packet, s) ==
    [s EXCEPT !.windSpeed = windSpeed(packet), !.windDir = windDirection(packet)]
\* Faulty variant: the wind speed is added to the stored one.
WindFieldsSum(packet, s) ==
    avgWindDir([s EXCEPT !.windSpeed = @ + windSpeed(packet),
                         !.windDir = windDirection(packet)],
               windDirection(packet))
\* The wind fields of a packet whose wind speed and direction are valid.
WindFields(packet, s) ==
    avgWindDir([s EXCEPT !.windSpeed = windSpeed(packet),
                         !.windDir = windDirection(packet)],
               windDirection(packet))

\* Faulty variant: the CRC is looked at only after the packet was applied.
decodeRawDataCrcLast(packet, s, old, pts) ==
    IF stationID(packet) # s.stationID
    THEN Decoded(FALSE, Message("Wrong station ID", FALSE), s, old, pts)
    ELSE IF windSpeed(packet) < 0
    THEN Decoded(FALSE,
                 Message("Error extracting wind speed from packet", packet.printsCRC),
                 [s EXCEPT !.windSpeed = 0], old, pts)
    ELSE IF windDirection(packet) < 0
    THEN Decoded(FALSE,
                 Message("Error extracting wind direction from packet", packet.printsCRC),
                 [s EXCEPT !.windSpeed = windSpeed(packet)], old, pts)
    ELSE LET r == Dispatch(packet, WindFields(packet, s), old, pts)
         IN IF crc16_ccitt(packet) THEN r
            ELSE Decoded(FALSE, Message("Invalid CRC", FALSE),
                         r.suntec, r.g_rainCounterOld, r.g_rainCntDataPts)
\* Faulty variant: an invalid wind field is reported only after the dispatch.
decodeRawDataWindLate(packet, s, old, pts) ==
    IF ~crc16_ccitt(packet)
    THEN Decoded(FALSE, Message("Invalid CRC", FALSE), s, old, pts)
    ELSE IF stationID(packet) # s.stationID
    THEN Decoded(FALSE, Message("Wrong station ID", FALSE), s, old, pts)
    ELSE LET r == Dispatch(packet, s, old, pts)
         IN IF windSpeed(packet) < 0
            THEN Decoded(FALSE,
                         Message("Error extracting wind speed from packet", packet.printsCRC),
                         [r.suntec EXCEPT !.windSpeed = 0],
                         r.g_rainCounterOld, r.g_rainCntDataPts)
            ELSE IF windDirection(packet) < 0
            THEN Decoded(FALSE,
                         Message("Error extracting wind direction from packet", packet.printsCRC),
                         [r.suntec EXCEPT !.windSpeed = windSpeed(packet)],
                         r.g_rainCounterOld, r.g_rainCntDataPts)
            ELSE Dispatch(packet, WindFields(packet, s), old, pts)
\* decodeRawData(packet) on the weather state (s, old, pts): the CRC and
\* station checks, the wind fields of every packet, then the dispatch.
decodeRawData(packet, s, old, pts) ==
    IF ~crc16_ccitt(packet)
    THEN Decoded(FALSE, Message("Invalid CRC", FALSE), s, old, pts)
    ELSE IF stationID(packet) # s.stationID
    THEN Decoded(FALSE, Message("Wrong station ID", FALSE), s, old, pts)
    ELSE IF windSpeed(packet) < 0
    THEN Decoded(FALSE,
                 Message("Error extracting wind speed from packet", packet.printsCRC),
                 [s EXCEPT !.windSpeed = 0], old, pts)
    ELSE IF windDirection(packet) < 0
    THEN Decoded(FALSE,
                 Message("Error extracting wind direction from packet", packet.printsCRC),
                 [s EXCEPT !.windSpeed = windSpeed(packet)], old, pts)
    ELSE Dispatch(packet, WindFields(packet, s), old, pts)

\* ---------------------------------------------------------------- the state
VARIABLES
    suntec,            \* the weatherStation object
    g_rainCounterOld,  \* previous value of the rain counter
    g_rainCntDataPts,  \* rain counter readings received so far
    g_crc_fail_count,  \* consecutive CRC failures
    g_crc_last_reset,  \* time of the last serial reset
    g_oldDayOfMonth,   \* the day the daily rain total belongs to
    perfStats,         \* the decode counters of perfStats
    decodeStatus,      \* this iteration's decode result
    decodeMessage,     \* and its message
    serOpen,           \* the serial port object is open
    now,               \* time.time()
    clockDay,          \* the clock's day, counted from the start
    pc,                \* where the main loop is: "poll", "day", "fatal",
                       \* or "rebooted" once the watchdog rebooted the machine
    tmr_upload,        \* no upload before this time
    watchdogHeartbeatTimer,  \* the next heartbeat is due at this time
    status,            \* the status file Logs/weather_status.json
    state,             \* the watchdog's file Logs/watchdog_state.json
    uploadTries,       \* history: calls of upload2WU
    checks,            \* history: runs of the watchdog
    issues,            \* history: what the last of them found
    rainSeen,          \* history: the rain counter values accepted so far
    rainAdded,         \* history: what each of them added to rainToday
    streakBefore,      \* history: the CRC streak before this iteration's packet
    resets,            \* history: calls of reset_serial_port
    resetAt,           \* history: the time of each of them
    allCrcFailed,      \* history: every packet read so far failed the CRC check
    hourTimer,         \* the hourly statistics are due after this time
    newRainToday,      \* what getDailyRain returned at startup
    bootAt,            \* the time the machine booted
    attemptAt,         \* history: the time of the last call of upload2WU
    did,               \* history: what the last run of the watchdog did
    alertAt,           \* history: the time of each stale-state alert sent
    reboots,           \* history: reboots issued since the last healthy check
    fileRead           \* history: the last iteration read the status file
                       \* it wrote to

vars ==
    <<suntec, g_rainCounterOld, g_rainCntDataPts, g_crc_fail_count,
      g_crc_last_reset, g_oldDayOfMonth, perfStats, decodeStatus,
      decodeMessage, serOpen, now, clockDay, pc, tmr_upload,
      watchdogHeartbeatTimer, status, state, uploadTries, checks, issues,
      rainSeen,
      rainAdded, streakBefore, resets, resetAt, allCrcFailed, hourTimer,
      newRainToday, bootAt, attemptAt, did, alertAt, reboots, fileRead>>

weather == <<suntec, g_rainCounterOld, g_rainCntDataPts>>
link == <<g_crc_fail_count, g_crc_last_reset, serOpen, resets, resetAt>>
history == <<rainSeen, rainAdded, streakBefore, allCrcFailed, fileRead>>
upload == <<tmr_upload, uploadTries, attemptAt, hourTimer>>
watch ==
    <<watchdogHeartbeatTimer, status, state, checks, issues, did, alertAt,
      reboots>>
boot == <<newRainToday, bootAt>>

\* status.get(key) of a key the file does not hold (None).
Missing == -1

\* The status file: the two timestamps the watchdog reads and the entry
\* last_upload_error, "none" (what the watchdog takes for it) when absent.
NoStatus ==
    [last_heartbeat |-> Missing, last_successful_upload |-> Missing,
     last_upload_error |-> "none"]

\* last_error of a call that reports no error (None), and the message of a
\* failed upload.
NoError == "none"
UploadError == "upload failed"

\* Faulty variant: the file is not read before it is written.
write_watchdog_statusAnew(st, last_upload, last_error, t, read, written) ==
    IF written
    THEN [last_heartbeat |-> t, last_successful_upload |-> last_upload,
          last_upload_error |-> last_error]
    ELSE st
\* write_watchdog_status(last_upload, last_error) at time t on the file st.
\* read: the existing file could be read (the entries start from {}
\* otherwise); written: the file could be written (an error is printed and
\* swallowed otherwise).
write_watchdog_status(st, last_upload, last_error, t, read, written) ==
    LET old == IF read THEN st ELSE NoStatus
    IN IF written
       THEN [last_heartbeat |-> t,
             last_successful_upload |->
                 IF last_upload # Missing THEN last_upload
                 ELSE old.last_successful_upload,
             last_upload_error |->
                 IF last_error # NoError THEN last_error
                 ELSE old.last_upload_error]
       ELSE st

\* The watchdog state a run starts from when there is no state file.
NoState ==
    [consecutive_failures |-> 0, last_alert_at |-> 0, reboot_triggered |-> FALSE]

\* A value of getDailyRain as the caller sees it: a list [value, message]
\* that can be indexed, or a plain number.
DailyRain(list, value) == [list |-> list, value |-> value]

\* newRainToday before the download.
NoDailyRain == DailyRain(FALSE, Missing)

\* The list the caller expects of a download that gave no rain amount.
FailedDailyRain == DailyRain(TRUE, ERR_INVALID_DATA)

\* The globals as set before the main loop; the status file, the place in
\* the program and the downloaded rain are the parameters.
Startup(file, where, rain) ==
    /\ suntec = weatherStation
    /\ g_rainCounterOld = 0
    /\ g_rainCntDataPts = 0
    /\ g_crc_fail_count = 0
    /\ g_crc_last_reset = 0
    /\ g_oldDayOfMonth = 1
    /\ perfStats = [STAT_UPLOADS |-> 0, STAT_HTTP_FAIL |-> 0,
                    STAT_UPLOAD_TIMESTAMP |-> StartTime,
                    STAT_ISS_FAIL |-> 0, STAT_ISS_SUCCESS |-> 0]
    /\ decodeStatus = FALSE
    /\ decodeMessage = NoMessage
    /\ serOpen = TRUE
    /\ now = StartTime
    /\ clockDay = 1
    /\ pc = where
    /\ tmr_upload = StartTime
    /\ watchdogHeartbeatTimer = StartTime + WATCHDOG_HEARTBEAT_SECONDS
    /\ status = file
    /\ state = NoState
    /\ uploadTries = 0
    /\ checks = 0
    /\ issues = {}
    /\ rainSeen = <<>>
    /\ rainAdded = <<>>
    /\ streakBefore = 0
    /\ resets = 0
    /\ resetAt = <<>>
    /\ allCrcFailed = TRUE
    /\ hourTimer = StartTime + 3600
    /\ newRainToday = rain
    /\ bootAt = StartTime
    /\ attemptAt = Missing
    /\ did = {}
    /\ alertAt = <<>>
    /\ reboots = 0
    /\ fileRead = TRUE

\* The main loop is entered with the status file written at line 559 and
\* rainToday 0.0, the state the startup is written to reach after a download
\* that gave no rain amount.
Init ==
    Startup(write_watchdog_status(NoStatus, StartTime, NoError, StartTime,
                                  TRUE, TRUE),
            "poll", FailedDailyRain)

\* The same, or with no status file because it could not be written.
WatchInit ==
    \E written \in BOOLEAN :
        Startup(write_watchdog_status(NoStatus, StartTime, NoError, StartTime,
                                      TRUE, written),
                "poll", FailedDailyRain)

\* ------------------------------------------------------------------ startup
\* The program before the download of the daily rain (line 514); no status
\* file is written yet.
StartInit == Startup(NoStatus, "start", NoDailyRain)

\* What getDailyRain returns: the rain of the day as a number (line 31), or
\* the number ERR_INVALID_DATA (line 33).
getDailyRain ==
    {DailyRain(FALSE, rain) : rain \in (0..MaxDailyRain) \cup {ERR_INVALID_DATA}}

\* newRainToday[0] and newRainToday[1] can be evaluated.
Indexable(x) == x.list

\* Line 514: the download.  The request raises (no network, no such key in
\* the answer) or returns; nothing around the call catches an exception.
Download ==
    /\ pc = "start"
    /\ \E raised \in BOOLEAN, rain \in getDailyRain :
          IF raised
          THEN pc' = "fatal" /\ UNCHANGED newRainToday
          ELSE pc' = "seed" /\ newRainToday' = rain
    /\ UNCHANGED <<weather, link, history, g_oldDayOfMonth, perfStats,
                   decodeStatus, decodeMessage, now, clockDay, upload, watch,
                   bootAt>>

\* Lines 515-520 and the rest of the startup: newRainToday[0] is compared
\* with 0, which raises a TypeError on a number; on a list the rain is taken
\* or the error printed, and the loop is entered with the status file
\* written.
SeedRain ==
    /\ pc = "seed"
    /\ IF Indexable(newRainToday)
       THEN /\ suntec' = IF newRainToday.value >= 0
                         THEN [suntec EXCEPT !.rainToday = newRainToday.value]
                         ELSE suntec
            /\ status' = write_watchdog_status(status, now, NoError, now,
                                              TRUE, TRUE)
            /\ pc' = "poll"
       ELSE /\ pc' = "fatal"
            /\ UNCHANGED <<suntec, status>>
    /\ UNCHANGED <<g_rainCounterOld, g_rainCntDataPts, link, history,
                   g_oldDayOfMonth, perfStats, decodeStatus, decodeMessage,
                   now, clockDay, upload, watchdogHeartbeatTimer, state,
                   checks, issues, did, alertAt, reboots, boot>>

\* ---------------------------------------------------------------- main loop
\* "CRC" in decodeMessage: of the fixed texts only "Invalid CRC" has it; a
\* message that formats the packet has it when the packet prints it.
ContainsCRC(message) == message.text = "Invalid CRC" \/ message.printsCRC

\* The streak after a failed decode.
CrcFailCount(message, count) ==
    IF ContainsCRC(message) THEN count + 1 ELSE 0

\* Faulty variant: the time of the last reset is not looked at.
ResetDueNoCooldown(count, t, last) == count >= CRC_FAIL_THRESHOLD
\* Faulty variant: one failure fewer is enough.
ResetDueEarly(count, t, last) ==
    count >= CRC_FAIL_THRESHOLD - 1 /\ (t - last) > CRC_RESET_COOLDOWN
\* Faulty variant: the threshold itself is not enough.
ResetDueLate(count, t, last) ==
    count > CRC_FAIL_THRESHOLD /\ (t - last) > CRC_RESET_COOLDOWN
\* Enough consecutive CRC failures, and the last reset long enough ago.
ResetDue(count, t, last) ==
    count >= CRC_FAIL_THRESHOLD /\ (t - last) > CRC_RESET_COOLDOWN

\* Faulty variant: a success leaves the streak as it is.
SuccessCountKeep(count) == count
\* The streak after a successful decode.
SuccessCount(count) == 0

\* The counters after the decode of one packet: [count, reset], reset saying
\* that the serial port is flushed and reopened.
Track(r, count, t, last) ==
    IF r.status
    THEN [count |-> SuccessCount(count), reset |-> FALSE]
    ELSE LET count1 == CrcFailCount(r.message, count)
         IN IF ResetDue(count1, t, last)
            THEN [count |-> 0, reset |-> TRUE]
            ELSE [count |-> count1, reset |-> FALSE]

\* The decode counters after one packet.
Count(r, stats) ==
    IF r.status
    THEN [stats EXCEPT !.STAT_ISS_SUCCESS = @ + 1]
    ELSE [stats EXCEPT !.STAT_ISS_FAIL = @ + 1]

\* The clock moves on while the loop waits for bytes.
Tick(limit) ==
    /\ pc = "poll"
    /\ \E dt \in TimeSteps :
          /\ now + dt <= StartTime + limit
          /\ now' = now + dt
    /\ UNCHANGED <<weather, link, history, g_oldDayOfMonth, perfStats,
                   decodeStatus, decodeMessage, clockDay, pc,
                   upload, watch,
                   boot>>

\* The clock passes midnight.
Midnight ==
    /\ pc = "poll"
    /\ clockDay < 1 + MaxMidnights
    /\ clockDay' = clockDay + 1
    /\ UNCHANGED <<weather, link, history, g_oldDayOfMonth, perfStats,
                   decodeStatus, decodeMessage, now, pc,
                   upload, watch,
                   boot>>

\* Eight bytes are waiting and are read: decodeRawData, the statistics, the
\* CRC streak and, when due, the serial reset.
ReadPacket(packet, limit) ==
    /\ pc = "poll"
    /\ serOpen
    /\ perfStats.STAT_ISS_FAIL + perfStats.STAT_ISS_SUCCESS < limit
    /\ LET r == decodeRawData(packet, suntec, g_rainCounterOld, g_rainCntDataPts)
           k == Track(r, g_crc_fail_count, now, g_crc_last_reset)
           counted == r.g_rainCntDataPts # g_rainCntDataPts
       IN /\ suntec' = r.suntec
          /\ g_rainCounterOld' = r.g_rainCounterOld
          /\ g_rainCntDataPts' = r.g_rainCntDataPts
          /\ decodeStatus' = r.status
          /\ decodeMessage' = r.message
          /\ perfStats' = Count(r, perfStats)
          /\ g_crc_fail_count' = k.count
          /\ g_crc_last_reset' = IF k.reset THEN now ELSE g_crc_last_reset
          /\ resets' = IF k.reset THEN resets + 1 ELSE resets
          /\ resetAt' = IF k.reset THEN Append(resetAt, now) ELSE resetAt
          /\ \E reopened \in BOOLEAN :
                serOpen' = IF k.reset THEN reopened ELSE serOpen
          /\ rainSeen' = IF counted THEN Append(rainSeen, rainCounter(packet))
                         ELSE rainSeen
          /\ rainAdded' = IF counted
                          THEN Append(rainAdded, r.suntec.rainToday - suntec.rainToday)
                          ELSE rainAdded
    /\ streakBefore' = g_crc_fail_count
    /\ allCrcFailed' = (allCrcFailed /\ ~crc16_ccitt(packet))
    /\ pc' = "day"
    /\ UNCHANGED <<g_oldDayOfMonth, now, clockDay, upload, watch,
                   boot, fileRead>>

\* Fewer than eight bytes are waiting: a short sleep.
Idle ==
    /\ pc = "poll"
    /\ serOpen
    /\ pc' = "day"
    /\ UNCHANGED <<weather, link, history, g_oldDayOfMonth, perfStats,
                   decodeStatus, decodeMessage, now, clockDay, upload, watch,
                   boot>>

\* Faulty variant: a short read ends the CRC streak.
IncompleteReadEndsStreak ==
    /\ pc = "poll"
    /\ serOpen
    /\ \E flushed \in BOOLEAN : pc' = IF flushed THEN "day" ELSE "fatal"
    /\ g_crc_fail_count' = 0
    /\ UNCHANGED <<weather, g_crc_last_reset, serOpen, resets, resetAt,
                   history, g_oldDayOfMonth, perfStats, decodeStatus,
                   decodeMessage, now, clockDay, upload, watch, boot>>
\* The read returns fewer than eight bytes: the input buffer is flushed.  A
\* flush that raises is caught by the serial handler, whose own flush ends
\* the process when it raises too.
IncompleteRead ==
    /\ pc = "poll"
    /\ serOpen
    /\ \E flushed \in BOOLEAN : pc' = IF flushed THEN "day" ELSE "fatal"
    /\ UNCHANGED <<weather, link, history, g_oldDayOfMonth, perfStats,
                   decodeStatus, decodeMessage, now, clockDay, upload, watch,
                   boot>>

\* The port raises while it is polled or read (always, once it is closed):
\* the handler flushes the input buffer, and a flush that raises leaves the
\* loop through the outer handler, which ends the process.
SerialError ==
    /\ pc = "poll"
    /\ \E flushed \in BOOLEAN :
          pc' = IF flushed /\ serOpen THEN "day" ELSE "fatal"
    /\ UNCHANGED <<weather, link, history, g_oldDayOfMonth, perfStats,
                   decodeStatus, decodeMessage, now, clockDay, upload, watch,
                   boot>>

\* The heartbeat is due.
HeartbeatDue(t, timer) == t >= timer

\* The status file after the heartbeat at the end of the ingest.
Heartbeat(st, t, timer, read, written) ==
    IF HeartbeatDue(t, timer)
    THEN write_watchdog_status(st, Missing, NoError, t, read, written)
    ELSE st

\* Faulty variant: the new day also forgets the rain rate.
DayCheckRate(s, day, oldDay) ==
    IF day # oldDay THEN [s EXCEPT !.rainToday = 0, !.rainRate = NoRainRate]
    ELSE s
\* The weather state after the check for a new day.
DayCheck(s, day, oldDay) ==
    IF day # oldDay THEN [s EXCEPT !.rainToday = 0] ELSE s

\* Faulty variant: the result of this iteration's decode is not looked at.
UploadDueAnyStatus(s, decoded, t, tmr) == gotDewPointData(s) /\ t > tmr
\* The upload condition: dew point data, a packet decoded in this
\* iteration, and the upload timer passed.
UploadDue(s, decoded, t, tmr) == gotDewPointData(s) /\ decoded /\ t > tmr

\* tmr_upload after a call of upload2WU at time t: set only when the
\* upload succeeded.
NextUpload(t, tmr, uploaded) ==
    IF uploaded THEN t + UPLOAD_FREQUENCY_SECONDS ELSE tmr

\* The hourly statistics are due.
HourPassed(t, timer) == t > timer

\* The statistics after the hourly report, when it is due.
HourlyReset(stats, t, timer) ==
    IF HourPassed(t, timer)
    THEN [stats EXCEPT !.STAT_UPLOADS = 0, !.STAT_HTTP_FAIL = 0,
                       !.STAT_ISS_SUCCESS = 0]
    ELSE stats

\* The rest of an iteration: the heartbeat, the new day, the upload, the
\* hourly statistics; then the next iteration starts with decodeStatus =
\* False.  reads, writes: whether the status file can be read and written
\* in this iteration, or not.
LoopEnd(reads, writes) ==
    /\ pc = "day"
    /\ \E read \in reads, written \in writes, uploaded \in BOOLEAN :
          LET st1 == Heartbeat(status, now, watchdogHeartbeatTimer, read,
                               written)
              s1 == DayCheck(suntec, clockDay, g_oldDayOfMonth)
              due == UploadDue(s1, decodeStatus, now, tmr_upload)
          IN /\ watchdogHeartbeatTimer' =
                   IF HeartbeatDue(now, watchdogHeartbeatTimer)
                   THEN now + WATCHDOG_HEARTBEAT_SECONDS
                   ELSE watchdogHeartbeatTimer
             /\ suntec' = s1
             /\ g_oldDayOfMonth' = clockDay
             /\ uploadTries' = IF due THEN uploadTries + 1 ELSE uploadTries
             /\ attemptAt' = IF due THEN now ELSE attemptAt
             /\ fileRead' =
                   (read \/ ~(HeartbeatDue(now, watchdogHeartbeatTimer) \/ due))
             /\ IF due /\ uploaded
                THEN /\ perfStats' =
                          HourlyReset([perfStats EXCEPT
                                          !.STAT_UPLOAD_TIMESTAMP = now,
                                          !.STAT_UPLOADS = @ + 1],
                                      now, hourTimer)
                     /\ tmr_upload' = NextUpload(now, tmr_upload, TRUE)
                     /\ status' = write_watchdog_status(st1, now, NoError, now,
                                                       read, written)
                ELSE IF due
                THEN /\ perfStats' =
                          HourlyReset([perfStats EXCEPT !.STAT_HTTP_FAIL = @ + 1],
                                      now, hourTimer)
                     /\ tmr_upload' = NextUpload(now, tmr_upload, FALSE)
                     /\ status' = write_watchdog_status(st1, Missing, UploadError,
                                                       now, read, written)
                ELSE /\ status' = st1
                     /\ perfStats' = HourlyReset(perfStats, now, hourTimer)
                     /\ UNCHANGED tmr_upload
             /\ hourTimer' = IF HourPassed(now, hourTimer) THEN now + 3600
                             ELSE hourTimer
    /\ decodeStatus' = FALSE
    /\ decodeMessage' = NoMessage
    /\ streakBefore' = 0
    /\ pc' = "poll"
    /\ UNCHANGED <<g_rainCounterOld, g_rainCntDataPts, link, rainSeen,
                   rainAdded, allCrcFailed, now, clockDay, state, checks,
                   issues, did, alertAt, reboots, boot>>

\* The clock moves on by one of the steps, whether the main process runs
\* or has ended.
Pass(steps, limit) ==
    /\ pc \in {"poll", "fatal"}
    /\ \E dt \in steps :
          /\ now + dt <= StartTime + limit
          /\ now' = now + dt
    /\ UNCHANGED <<weather, link, history, g_oldDayOfMonth, perfStats,
                   decodeStatus, decodeMessage, clockDay, pc, upload, watch,
                   boot>>

\* -------------------------------------------------------- watchdog_mailgun
\* /proc/uptime.
get_uptime_seconds(t) == t - bootAt

\* isinstance(x, (int, float)) of a timestamp read from the status file.
IsNumber(x) == x # Missing

\* Faulty variant: the upload timestamp is not looked at.
evaluate_healthHeartbeatOnly(st, t) ==
    IF ~IsNumber(st.last_heartbeat) THEN {"missing heartbeat timestamp"}
    ELSE IF (t - st.last_heartbeat) > STALE_HEARTBEAT_SECONDS
    THEN {"heartbeat stale"}
    ELSE {}
\* The issues the watchdog finds in the status file at time t.
evaluate_health(st, t) ==
    (IF ~IsNumber(st.last_heartbeat) THEN {"missing heartbeat timestamp"}
     ELSE IF (t - st.last_heartbeat) > STALE_HEARTBEAT_SECONDS
     THEN {"heartbeat stale"}
     ELSE {})
    \cup
    (IF ~IsNumber(st.last_successful_upload)
     THEN {"missing successful upload timestamp"}
     ELSE IF (t - st.last_successful_upload) > STALE_UPLOAD_SECONDS
     THEN {"upload stale"}
     ELSE {})

\* Faulty variant: the uptime is not looked at.
InGraceNever(t) == FALSE
\* The run is skipped: the machine booted less than five minutes ago.
InGrace(t) == get_uptime_seconds(t) < BOOT_GRACE_SECONDS

\* Faulty variant: the time of the last alert is not looked at.
ShouldAlertAlways(t, st) == TRUE
\* should_alert: the last alert that was sent is old enough.
ShouldAlert(t, st) == (t - st.last_alert_at) >= ALERT_COOLDOWN_SECONDS

\* Faulty variant: the reboot flag is not looked at.
RebootDueAgain(st, failures) ==
    REBOOT_ENABLED /\ failures >= MAX_FAILURES_BEFORE_REBOOT
\* The condition of the reboot, failures being the count of this run.
RebootDue(st, failures) ==
    /\ REBOOT_ENABLED
    /\ failures >= MAX_FAILURES_BEFORE_REBOOT
    /\ ~st.reboot_triggered

\* Faulty variant: every healthy run reports a recovery.
RecoveredAlways(st) == TRUE
\* recovered: the run before this one counted a failure.
Recovered(st) == st.consecutive_failures > 0

\* One run of the watchdog.  Within the boot grace it does nothing; with
\* issues it counts the failure, sends the alert when the cooldown allows
\* (and stamps it when it was sent), and reboots at the third failure in a
\* row; without issues it reports the recovery and clears the count and the
\* reboot flag.  did: the status file was read ("status"), a stale-state
\* alert was tried ("alert") and sent ("alert sent"), the reboot mail was
\* tried ("reboot mail"), /sbin/reboot was run ("reboot"), the recovery mail
\* was tried ("recovery mail"), the state file was saved ("saved").
main(limit) ==
    /\ pc # "rebooted"
    /\ checks < limit
    /\ checks' = checks + 1
    /\ issues' = IF InGrace(now) THEN {} ELSE evaluate_health(status, now)
    /\ IF InGrace(now)
       THEN /\ did' = {}
            /\ UNCHANGED <<state, pc, alertAt, reboots>>
       ELSE IF evaluate_health(status, now) # {}
       THEN \E mailed \in BOOLEAN :
               LET failures == state.consecutive_failures + 1
                   should_alert == ShouldAlert(now, state)
                   counted ==
                       [state EXCEPT
                          !.consecutive_failures = failures,
                          !.last_alert_at =
                              IF should_alert /\ mailed THEN now ELSE @]
                   alert ==
                       IF should_alert
                       THEN IF mailed THEN {"alert", "alert sent"}
                            ELSE {"alert"}
                       ELSE {}
               IN /\ alertAt' = IF should_alert /\ mailed
                                 THEN Append(alertAt, now) ELSE alertAt
                  /\ IF RebootDue(state, failures)
                     THEN /\ state' = [counted EXCEPT !.reboot_triggered = TRUE]
                          /\ did' = {"status", "saved", "reboot mail", "reboot"}
                                        \cup alert
                          /\ reboots' = reboots + 1
                          /\ pc' = "rebooted"
                     ELSE /\ state' = counted
                          /\ did' = {"status", "saved"} \cup alert
                          /\ UNCHANGED <<pc, reboots>>
       ELSE /\ state' = [state EXCEPT !.consecutive_failures = 0,
                                      !.reboot_triggered = FALSE]
            /\ did' = {"status", "saved"} \cup
                          (IF Recovered(state) THEN {"recovery mail"} ELSE {})
            /\ reboots' = 0
            /\ UNCHANGED <<pc, alertAt>>
    /\ UNCHANGED <<weather, link, history, g_oldDayOfMonth, perfStats,
                   decodeStatus, decodeMessage, now, clockDay, upload,
                   watchdogHeartbeatTimer, status, boot>>

\* The machine comes up again after the reboot: the main process starts
\* anew at the time of the boot and writes the status file, when it can;
\* the watchdog's state file is what the last run saved.
Boot ==
    /\ pc = "rebooted"
    /\ \E written \in BOOLEAN :
          status' = write_watchdog_status(status, now, NoError, now, TRUE,
                                          written)
    /\ suntec' = weatherStation
    /\ g_rainCounterOld' = 0
    /\ g_rainCntDataPts' = 0
    /\ g_crc_fail_count' = 0
    /\ g_crc_last_reset' = 0
    /\ g_oldDayOfMonth' = clockDay
    /\ perfStats' = [STAT_UPLOADS |-> 0, STAT_HTTP_FAIL |-> 0,
                     STAT_UPLOAD_TIMESTAMP |-> now,
                     STAT_ISS_FAIL |-> 0, STAT_ISS_SUCCESS |-> 0]
    /\ decodeStatus' = FALSE
    /\ decodeMessage' = NoMessage
    /\ serOpen' = TRUE
    /\ pc' = "poll"
    /\ tmr_upload' = now
    /\ hourTimer' = now + 3600
    /\ watchdogHeartbeatTimer' = now + WATCHDOG_HEARTBEAT_SECONDS
    /\ uploadTries' = 0
    /\ attemptAt' = Missing
    /\ rainSeen' = <<>>
    /\ rainAdded' = <<>>
    /\ streakBefore' = 0
    /\ resets' = 0
    /\ resetAt' = <<>>
    /\ allCrcFailed' = TRUE
    /\ fileRead' = TRUE
    /\ newRainToday' = FailedDailyRain
    /\ bootAt' = now
    /\ UNCHANGED <<now, clockDay, state, checks, issues, did, alertAt, reboots>>

Next ==
    \/ Tick(MaxElapsed)
    \/ Midnight
    \/ \E packet \in SpecPackets : ReadPacket(packet, MaxPackets)
    \/ Idle
    \/ IncompleteRead
    \/ SerialError
    \/ LoopEnd({TRUE}, {TRUE})

Spec == Init /\ [][Next]_vars

\* The same loop with shorter runs, for what one packet does to the fields
\* of any state.
FieldNext ==
    \/ Tick(MaxElapsed)
    \/ Midnight
    \/ \E packet \in SpecPackets : ReadPacket(packet, MaxFieldPackets)
    \/ Idle
    \/ IncompleteRead
    \/ SerialError
    \/ LoopEnd({TRUE}, {TRUE})

FieldSpec == Init /\ [][FieldNext]_vars

LinkNext ==
    \/ Tick(MaxLinkElapsed)
    \/ Midnight
    \/ \E packet \in LinkPackets : ReadPacket(packet, MaxLinkPackets)
    \/ Idle
    \/ IncompleteRead
    \/ SerialError
    \/ LoopEnd({TRUE}, {TRUE})

LinkSpec == Init /\ [][LinkNext]_vars

\* The main process and the watchdog side by side.
WatchNext ==
    \/ Pass(WatchSteps, MaxWatchElapsed)
    \/ \E packet \in WatchPackets : ReadPacket(packet, MaxWatchPackets)
    \/ Idle
    \/ SerialError
    \/ LoopEnd({TRUE}, BOOLEAN)
    \/ main(MaxChecks)

WatchSpec == WatchInit /\ [][WatchNext]_vars

\* The startup up to the main loop.
StartNext ==
    \/ Download
    \/ SeedRain

StartSpec == StartInit /\ [][StartNext]_vars

\* The main loop over more than an hour.
HourNext ==
    \/ Pass(HourSteps, MaxHourElapsed)
    \/ \E packet \in HourPackets : ReadPacket(packet, MaxHourPackets)
    \/ Idle
    \/ LoopEnd({TRUE}, {TRUE})

HourSpec == Init /\ [][HourNext]_vars

\* The watchdog over more than one alert cooldown and over a reboot.
AlertNext ==
    \/ Pass(AlertSteps, MaxAlertElapsed)
    \/ \E packet \in WatchPackets : ReadPacket(packet, MaxAlertPackets)
    \/ Idle
    \/ LoopEnd({TRUE}, {TRUE})
    \/ main(MaxAlertChecks)
    \/ Boot

AlertSpec == WatchInit /\ [][AlertNext]_vars

\* The main loop over the upload limit of the watchdog, with a status file
\* that cannot always be read.
StatusNext ==
    \/ Pass(WatchSteps, MaxWatchElapsed)
    \/ \E packet \in WatchPackets : ReadPacket(packet, MaxWatchPackets)
    \/ Idle
    \/ LoopEnd(BOOLEAN, {TRUE})

StatusSpec == Init /\ [][StatusNext]_vars

\* ------------------------------------------------------------------ claims
\* What decodeRawData makes of a packet in the current state.
Outcome(packet) ==
    decodeRawData(packet, suntec, g_rainCounterOld, g_rainCntDataPts)

\* The weather state an outcome leaves.
WeatherOf(r) == <<r.suntec, r.g_rainCounterOld, r.g_rainCntDataPts>>

\* This step read a packet (the decode message is set) and decoding failed.
FailedRead ==
    pc = "poll" /\ pc' = "day" /\ decodeMessage' # NoMessage /\ ~decodeStatus'

\* C1: a packet whose CRC check fails is answered with the failure
\* "Invalid CRC" and leaves every field of the weather state, the rain
\* counter baseline and the rain sample count as they were, whatever the
\* rest of the packet holds.
C1_CrcFailureChangesNothing ==
    pc = "poll" =>
        \A packet \in Packets :
            ~crc16_ccitt(packet) =>
                LET r == Outcome(packet)
                IN /\ ~r.status
                   /\ r.message = Message("Invalid CRC", FALSE)
                   /\ WeatherOf(r) = weather

\* A corrupted packet was read after temperature and rain data had come in.
C1_Witness ==
    /\ pc = "day"
    /\ decodeMessage.text = "Invalid CRC"
    /\ suntec.outsideTemp = 50
    /\ g_rainCntDataPts = 1

\* C2: whenever decodeRawData reports failure the weather state is the same
\* after the call as before it (apply-or-reject).
C2_RejectChangesNothing == [][FailedRead => UNCHANGED weather]_vars

\* C3: the first accepted rain counter reading becomes the previous counter
\* value and adds nothing; every later reading that differs from the
\* reading before it adds ((new - previous) mod 128) hundredths of an inch.
C3_WarmUpFromFirstReading ==
    /\ Len(rainSeen) >= 1 => g_rainCounterOld = rainSeen[Len(rainSeen)]
    /\ \A i \in 1..Len(rainSeen) :
          rainAdded[i] = IF i = 1 THEN 0
                         ELSE (rainSeen[i] - rainSeen[i - 1]) % 128

\* The witness of C3's case: the first two readings differ; the code adds
\* nothing for the second and takes it, not the first, as the baseline.
C3_Case ==
    /\ Len(rainSeen) = 2
    /\ rainSeen = <<50, 53>>
    /\ rainAdded = <<0, 0>>
    /\ g_rainCounterOld = 53

\* C4: from a fresh process the readings a, a, b add nothing, then 0, then
\* ((b - a) mod 128) hundredths of an inch; 50, 50, 53 add 0, 0 and 3.
C4_ThreeReadings ==
    /\ Len(rainSeen) >= 1 => rainAdded[1] = 0
    /\ Len(rainSeen) >= 2 /\ rainSeen[2] = rainSeen[1] => rainAdded[2] = 0
    /\ Len(rainSeen) >= 3 /\ rainSeen[2] = rainSeen[1] =>
          rainAdded[3] = (rainSeen[3] - rainSeen[1]) % 128
    /\ rainSeen = <<50, 50, 53>> => rainAdded = <<0, 0, 3>>

C4_Witness ==
    /\ rainSeen = <<50, 50, 53>>
    /\ rainAdded = <<0, 0, 3>>
    /\ suntec.rainToday = 3

\* A packet that passes every check of the header.
GoodHeader ==
    [crcOk |-> TRUE, station |-> ISS_STATION_ID, windSpeed |-> 5,
     windDir |-> 90, printsCRC |-> FALSE]

\* C5: once two readings have come in, a reading n in 0..127 that differs
\* from the previous value p adds (n - p) mod 128 tips, a number in 1..127,
\* and becomes the previous value; from 126 to 2 that is 4 tips.
C5_RolloverDelta ==
    (pc = "poll" /\ g_rainCntDataPts >= 2) =>
        \A n \in 0..127 :
            n # g_rainCounterOld =>
                LET r == Outcome(Packet(GoodHeader, ISS_RAIN_COUNT, n))
                    tips == r.suntec.rainToday - suntec.rainToday
                IN /\ r.status
                   /\ tips = (n - g_rainCounterOld) % 128
                   /\ tips \in 1..127
                   /\ r.g_rainCounterOld = n
                   /\ (g_rainCounterOld = 126 /\ n = 2 => tips = 4)

\* The counter went from 126 to 2 and 4 tips were added.
C5_Witness ==
    /\ Len(rainSeen) = 3
    /\ rainSeen[2] = 126
    /\ rainSeen[3] = 2
    /\ rainAdded[3] = 4
    /\ g_rainCounterOld = 2

\* The rain state: the daily total, the previous counter value, the count.
rain == <<suntec.rainToday, g_rainCounterOld, g_rainCntDataPts>>

\* C6: except in the step that starts a new day, rainToday never decreases,
\* and the rain state changes only in a step that read and accepted a rain
\* counter packet with a value in 0..127.
C6_RainTodayMonotone ==
    [][g_oldDayOfMonth' = g_oldDayOfMonth =>
          /\ suntec'.rainToday >= suntec.rainToday
          /\ rain' # rain =>
                /\ pc = "poll"
                /\ decodeStatus'
                /\ decodeMessage'.text = "Rain count data processed"
                /\ Len(rainSeen') = Len(rainSeen) + 1
                /\ rainSeen'[Len(rainSeen')] \in 0..127]_vars

\* Rain was added on the day the process started.
C6_Witness ==
    /\ pc = "day"
    /\ g_oldDayOfMonth = 1
    /\ clockDay = 1
    /\ rainAdded = <<0, 0, 3>>
    /\ suntec.rainToday = 3

\* Rain intervals around both ends of the accepted range.
SecondsProbe == {-1, 0, 1, 10, 899, 900, 901, 1000}

\* C7: a rain-seconds packet with interval s sets rainRate to
\* 0.01 * 3600 / s for 0 < s < 900 (3.6 for s = 10) and to 0 for s >= 900
\* (so for s = 1000); with s <= 0 it is rejected and rainRate stays.
C7_RainRate ==
    pc = "poll" =>
        \A s \in SecondsProbe :
            LET r == Outcome(Packet(GoodHeader, ISS_RAIN_SECONDS, s))
                rate == r.suntec.rainRate
            IN /\ (0 < s /\ s < 900) =>
                     r.status /\ rate[2] > 0 /\ 100 * rate[1] * s = 3600 * rate[2]
               /\ s = 10 => 10 * rate[1] = 36 * rate[2]
               /\ s >= 900 => r.status /\ rate[1] = 0
               /\ s <= 0 => ~r.status /\ rate = suntec.rainRate

\* An interval of 10 s was read: 3.6 inches per hour.
C7_Witness ==
    /\ pc = "day"
    /\ decodeMessage.text = "Rain rate data processed"
    /\ suntec.rainRate = <<36, 10>>

\* C8: a decode failure that is not a CRC failure (wrong station, invalid
\* wind field, invalid payload value, unhandled tag) sets the streak of
\* consecutive CRC failures to 0.
C8_OtherFailureResetsStreak ==
    [][(FailedRead /\ decodeMessage'.text # "Invalid CRC") =>
          g_crc_fail_count' = 0]_vars

\* C8's case: a packet rejected for its wind speed, whose bytes print as
\* CRC in the message, lengthened the streak.
C8_Case ==
    /\ pc = "day"
    /\ decodeMessage = Message("Error extracting wind speed from packet", TRUE)
    /\ streakBefore = 1
    /\ g_crc_fail_count = 2

\* C9: after every successfully decoded packet the streak of consecutive
\* CRC failures is 0.
C9_SuccessResetsStreak ==
    (pc = "day" /\ decodeStatus) => g_crc_fail_count = 0

\* A packet was decoded after two CRC failures in a row.
C9_Witness ==
    /\ pc = "day"
    /\ decodeStatus
    /\ streakBefore = 2
    /\ g_crc_fail_count = 0

\* This step read a packet that failed the CRC check.
CrcFailedRead ==
    pc = "poll" /\ pc' = "day" /\ decodeMessage'.text = "Invalid CRC"

\* C10: a CRC failure that brings the streak to 12 or more, more than 60 s
\* after the last reset, resets the serial port, sets the streak to 0 and
\* stamps the reset with the current time; before any reset (timestamp 0)
\* reaching 12 always resets.
C10_ResetWhenDue ==
    [][/\ (CrcFailedRead /\ g_crc_fail_count + 1 >= 12
                         /\ now - g_crc_last_reset > 60) =>
             /\ resets' = resets + 1
             /\ g_crc_fail_count' = 0
             /\ g_crc_last_reset' = now
       /\ (CrcFailedRead /\ g_crc_fail_count + 1 >= 12
                         /\ g_crc_last_reset = 0) =>
             resets' = resets + 1]_vars

\* A second reset: the streak had reached 12 within the cooldown of the
\* first reset, and the next CRC failure after the cooldown reset the port.
C10_Witness ==
    /\ pc = "day"
    /\ resets = 2
    /\ streakBefore >= 12
    /\ g_crc_fail_count = 0
    /\ g_crc_last_reset = now

\* C11: any two calls of reset_serial_port are more than 60 s apart,
\* however many CRC failures are read between them.
C11_ResetsApart ==
    \A i \in 1..Len(resetAt) : \A j \in 1..Len(resetAt) :
        i < j => resetAt[j] - resetAt[i] > 60

\* Two resets, with CRC failures piling up to the threshold again in the
\* cooldown of the first.
C11_Witness ==
    /\ Len(resetAt) = 2
    /\ resetAt[1] = StartTime
    /\ streakBefore >= CRC_FAIL_THRESHOLD
    /\ perfStats.STAT_ISS_FAIL >= 2 * CRC_FAIL_THRESHOLD

\* The packets read since the process started.
packetsRead == perfStats.STAT_ISS_FAIL + perfStats.STAT_ISS_SUCCESS

\* C12: from a fresh process, 11 CRC failures in a row reset nothing, the
\* 12th resets the serial port exactly once, and a 13th within the cooldown
\* of that reset does not reset it again.
C12_TwelfthFailureResetsOnce ==
    allCrcFailed =>
        /\ packetsRead <= 11 => resets = 0 /\ resetAt = <<>>
        /\ packetsRead = 12 => resets = 1 /\ Len(resetAt) = 1
        /\ (packetsRead = 13 /\ Len(resetAt) >= 1 /\ now - resetAt[1] <= 60) =>
              resets = 1 /\ Len(resetAt) = 1

\* The 13th CRC failure in a row was read within the cooldown of the reset
\* that the 12th caused.
C12_Witness ==
    /\ pc = "day"
    /\ allCrcFailed
    /\ packetsRead = 13
    /\ resets = 1
    /\ now - resetAt[1] <= 60
    /\ g_crc_fail_count = 1

\* C13: no error raised while the port is polled or read ends the process,
\* not even when the handler's own flush fails or the port stayed closed
\* after a reset: the main loop always goes on to its next iteration.
C13_IngestErrorNeverFatal == pc # "fatal"

\* C13's case: a reset could not reopen the port; the next poll raised, the
\* handler's flush raised too, and the process ended.
C13_Case ==
    /\ pc = "fatal"
    /\ ~serOpen
    /\ resets = 1

\* The headers that pass the CRC and station checks and fail a wind check.
WindErrorHeaders ==
    {h \in AllHeaders :
        /\ h.crcOk
        /\ h.station = ISS_STATION_ID
        /\ (h.windSpeed < 0 \/ h.windDir < 0)
        /\ ~h.printsCRC}

\* C14: an accepted temperature recomputes the dew point only if humidity
\* data has come in, an accepted humidity only if temperature data has, and
\* a dew point is never computed from a no-data temperature or humidity.
C14_DewPointFromRealData ==
    /\ suntec.dewPoint # NoDewPoint =>
          suntec.dewPoint[1] # NO_DATA /\ suntec.dewPoint[2] # NO_DATA
    /\ pc = "poll" =>
          /\ LET r == Outcome(Packet(GoodHeader, ISS_OUT_TEMP, 50))
             IN /\ r.status
                /\ r.suntec.dewPoint = IF suntec.humidity # NO_DATA
                                       THEN <<50, suntec.humidity>>
                                       ELSE suntec.dewPoint
          /\ LET r == Outcome(Packet(GoodHeader, ISS_HUMIDITY, 50))
             IN /\ r.status
                /\ r.suntec.dewPoint = IF suntec.outsideTemp # NO_DATA
                                       THEN <<suntec.outsideTemp, 50>>
                                       ELSE suntec.dewPoint

\* A temperature came in, then a humidity: the dew point is theirs.
C14_Witness ==
    /\ pc = "day"
    /\ decodeMessage.text = "Humidity data processed"
    /\ suntec.outsideTemp = 50
    /\ suntec.humidity = 50
    /\ suntec.dewPoint = <<50, 50>>

\* The fields a tag's payload is stored in, with the rain counter state.
TagFields(s, old, pts) ==
    <<old, pts, s.rainToday, s.rainRate, s.outsideTemp, s.humidity,
      s.dewPoint, s.windGust, s.capacitorVolts, s.solar, s.uvIndex>>

\* C15: a packet whose wind speed or wind direction is invalid is rejected
\* before the dispatch on its tag: whatever its tag and payload, no field
\* that belongs to a tag and no part of the rain counter state changes.
C15_WindErrorAbortsPacket ==
    pc = "poll" =>
        \A h \in WindErrorHeaders : \A tag \in Tags : \A v \in PayloadsOf(tag) :
            LET r == Outcome(Packet(h, tag, v))
            IN /\ ~r.status
               /\ r.message.text =
                     IF h.windSpeed < 0
                     THEN "Error extracting wind speed from packet"
                     ELSE "Error extracting wind direction from packet"
               /\ TagFields(r.suntec, r.g_rainCounterOld, r.g_rainCntDataPts)
                     = TagFields(suntec, g_rainCounterOld, g_rainCntDataPts)

\* A packet was rejected for its wind direction after a temperature had
\* come in.
C15_Witness ==
    /\ pc = "day"
    /\ decodeMessage.text = "Error extracting wind direction from packet"
    /\ suntec.outsideTemp = 50
    /\ suntec.windChill = <<50, 5>>

\* The headers of the input, their bytes not printing as CRC.
PlainHeaders == {h \in Headers : ~h.printsCRC}

\* The header nibbles decodeRawData has no branch for.
UnhandledTags ==
    (0..15) \ {ISS_CAP_VOLTS, ISS_UV_INDEX, ISS_RAIN_SECONDS, ISS_SOLAR_RAD,
               ISS_OUT_TEMP, ISS_WIND_GUST, ISS_HUMIDITY, ISS_RAIN_COUNT}

\* C16: a packet with a tag other than 0x2, 0x4, 0x5, 0x6, 0x8, 0x9, 0xA,
\* 0xE (0x1 included) is never accepted: decoding fails, the failure is
\* counted, no field that belongs to a tag changes, and when the packet
\* passes the checks made before the dispatch the message is "Unhandled
\* data type" followed by the tag in hexadecimal.
C16_UnhandledTagRejected ==
    pc = "poll" =>
        \A tag \in UnhandledTags : \A h \in PlainHeaders :
            LET r == Outcome(Packet(h, tag, 0))
                stats == Count(r, perfStats)
            IN /\ ~r.status
               /\ stats.STAT_ISS_FAIL = perfStats.STAT_ISS_FAIL + 1
               /\ stats.STAT_ISS_SUCCESS = perfStats.STAT_ISS_SUCCESS
               /\ TagFields(r.suntec, r.g_rainCounterOld, r.g_rainCntDataPts)
                     = TagFields(suntec, g_rainCounterOld, g_rainCntDataPts)
               /\ Faults(h) = 0 =>
                     /\ r.message.text = "Unhandled data type: 0x" \o HexDigit(tag)
                     /\ (tag = 1 => r.message.text = "Unhandled data type: 0x1")
                     /\ (tag = 12 => r.message.text = "Unhandled data type: 0xC")

\* A packet with tag 0x1 was read after a temperature: rejected and counted.
C16_Witness ==
    /\ pc = "day"
    /\ ~decodeStatus
    /\ decodeMessage.text = "Unhandled data type: 0x1"
    /\ perfStats.STAT_ISS_FAIL = 1
    /\ perfStats.STAT_ISS_SUCCESS = 1
    /\ suntec.outsideTemp = 50

\* The instantaneous fields and the daily rain.
Readings(s) ==
    <<s.windSpeed, s.windDir, s.windGust, s.outsideTemp, s.humidity,
      s.capacitorVolts, s.solar, s.uvIndex, s.rainRate, s.rainToday>>

\* C17: a packet other than a rain counter packet that is accepted is
\* accepted again when it is processed a second time in a row, and the
\* second time leaves the instantaneous fields and rainToday as the first
\* time left them.
C17_NonCounterIdempotent ==
    pc = "poll" =>
        \A tag \in Tags \ {ISS_RAIN_COUNT} : \A v \in PayloadsOf(tag) :
            LET packet == Packet(GoodHeader, tag, v)
                r1 == Outcome(packet)
                r2 == decodeRawData(packet, r1.suntec, r1.g_rainCounterOld,
                                    r1.g_rainCntDataPts)
            IN r1.status =>
                  /\ r2.status
                  /\ Readings(r2.suntec) = Readings(r1.suntec)
                  /\ r2.g_rainCounterOld = r1.g_rainCounterOld
                  /\ r2.g_rainCntDataPts = r1.g_rainCntDataPts

\* The same temperature packet was read twice in a row from the start.
C17_Witness ==
    /\ pc = "day"
    /\ decodeMessage.text = "Temperature data processed"
    /\ perfStats.STAT_ISS_SUCCESS = 2
    /\ perfStats.STAT_ISS_FAIL = 0
    /\ suntec.windDirFed = <<90, 90>>
    /\ Readings(suntec) = <<5, 90, 0, 50, NO_DATA, NO_DATA, NO_DATA, NO_DATA,
                            NoRainRate, 0>>
    /\ g_rainCntDataPts = 0

\* Wind speeds and directions a packet may carry.
WindProbe == {<<0, 0>>, <<5, 90>>, <<7, 359>>}

\* A packet that passes every check of the header, for each of them, with
\* every tag and payload.
WindPackets ==
    UNION {{Packet([GoodHeader EXCEPT !.windSpeed = wind[1], !.windDir = wind[2]],
                   tag, v) : wind \in WindProbe, v \in PayloadsOf(tag)} :
           tag \in 0..15}

\* C19: a packet that passes the CRC, station and wind checks sets
\* windSpeed and windDir to its values and feeds its direction once to the
\* running average, whatever its tag and whether or not its payload is
\* accepted.
C19_WindAlwaysApplied ==
    pc = "poll" =>
        \A packet \in WindPackets :
            LET s == Outcome(packet).suntec
            IN /\ s.windSpeed = windSpeed(packet)
               /\ s.windDir = windDirection(packet)
               /\ s.windDirFed = Append(suntec.windDirFed, windDirection(packet))

\* A packet with an invalid temperature was rejected, its wind fields were
\* stored and its direction was fed to the average.
C19_Witness ==
    /\ pc = "day"
    /\ ~decodeStatus
    /\ decodeMessage.text = "Invalid temperature"
    /\ suntec.windSpeed = 5
    /\ suntec.windDir = 90
    /\ suntec.windDirFed = <<90>>
    /\ suntec.outsideTemp = NO_DATA

\* This step is a run of the watchdog after the boot grace.
WatchdogChecked ==
    checks' = checks + 1 /\ get_uptime_seconds(now) >= BOOT_GRACE_SECONDS

\* Ages of a timestamp around the two limits.
HeartbeatAges == {0, 180, 181}
UploadAges == {0, 900, 901}

\* C18: a run of the watchdog after the boot grace, made when the main
\* process has had no successful upload for more than 900 s or the last
\* heartbeat written is more than 180 s old (or was never written), finds
\* at least one issue and adds one to consecutive_failures; no issue is
\* found only when both timestamps are numbers and within their limits.
C18_StaleStateReported ==
    [][WatchdogChecked =>
          /\ (\/ now - perfStats.STAT_UPLOAD_TIMESTAMP > 900
              \/ ~IsNumber(status.last_heartbeat)
              \/ now - status.last_heartbeat > 180) =>
                /\ evaluate_health(status, now) # {}
                /\ state'.consecutive_failures = state.consecutive_failures + 1
          /\ evaluate_health(status, now) = {} =>
                /\ IsNumber(status.last_heartbeat)
                /\ IsNumber(status.last_successful_upload)
                /\ now - status.last_heartbeat <= 180
                /\ now - status.last_successful_upload <= 900
          /\ \A a \in HeartbeatAges : \A b \in UploadAges :
                (evaluate_health([last_heartbeat |-> now - a,
                                  last_successful_upload |-> now - b], now) = {})
                   <=> (a <= 180 /\ b <= 900)]_vars

\* The main process runs and writes its heartbeat but has not uploaded for
\* more than 900 s: the watchdog found the stale upload and counted it.
C18_Witness ==
    /\ pc = "poll"
    /\ status.last_heartbeat = now
    /\ now - perfStats.STAT_UPLOAD_TIMESTAMP > 900
    /\ issues = {"upload stale"}
    /\ state.consecutive_failures = 1

\* C20: upload2WU is called only in an iteration whose packet was decoded
\* successfully, with dew point data and with the upload timer passed; so
\* never before a temperature and a humidity were accepted, and never in an
\* iteration whose packet failed to decode or that read no packet.
C20_UploadOnlyAfterDecode ==
    [][uploadTries' # uploadTries =>
          /\ pc = "day"
          /\ decodeStatus
          /\ decodeMessage # NoMessage
          /\ gotDewPointData(suntec)
          /\ now > tmr_upload
          /\ suntec.outsideTemp # NO_DATA
          /\ suntec.humidity # NO_DATA
          /\ perfStats.STAT_ISS_SUCCESS >= 2]_vars

\* One upload was tried; now a packet failed to decode while there is dew
\* point data and the upload timer has passed.
C20_Witness ==
    /\ pc = "day"
    /\ ~decodeStatus
    /\ decodeMessage # NoMessage
    /\ uploadTries = 1
    /\ gotDewPointData(suntec)
    /\ now > tmr_upload

\* C21: any two consecutive calls of upload2WU are at least
\* UPLOAD_FREQUENCY_SECONDS apart: a call is not made sooner than 5 s after
\* the call before it.
C21_UploadAttemptsApart ==
    [][uploadTries' = uploadTries + 1 /\ attemptAt # Missing =>
          now - attemptAt >= UPLOAD_FREQUENCY_SECONDS]_vars

\* An upload was tried and failed: the upload timer is still in the past.
C21_Case ==
    /\ pc = "poll"
    /\ attemptAt = now
    /\ perfStats.STAT_HTTP_FAIL = 1
    /\ perfStats.STAT_UPLOADS = 0
    /\ tmr_upload < now

\* C22: perfStats[STAT_ISS_FAIL] is incremented once per failed decode and
\* is 0 after the hourly statistics reset, like the other hourly counters.
C22_DecodeErrorsOfLastHour ==
    [][/\ (pc = "poll" /\ pc' = "day" /\ decodeStatus' # decodeStatus =>
              perfStats'.STAT_ISS_FAIL = perfStats.STAT_ISS_FAIL)
       /\ (pc = "poll" /\ perfStats' # perfStats /\ ~decodeStatus' =>
              perfStats'.STAT_ISS_FAIL = perfStats.STAT_ISS_FAIL + 1)
       /\ (hourTimer' # hourTimer =>
              /\ perfStats'.STAT_UPLOADS = 0
              /\ perfStats'.STAT_HTTP_FAIL = 0
              /\ perfStats'.STAT_ISS_SUCCESS = 0
              /\ perfStats'.STAT_ISS_FAIL = 0)]_vars

\* The hourly reset has just run, after a packet that failed to decode and
\* an upload.
C22_Case ==
    /\ pc = "poll"
    /\ hourTimer = now + 3600
    /\ perfStats.STAT_UPLOADS = 0
    /\ perfStats.STAT_ISS_SUCCESS = 0
    /\ perfStats.STAT_UPLOAD_TIMESTAMP = now
    /\ perfStats.STAT_ISS_FAIL > 0

\* C23: the startup seeds rainToday from the download and goes on to the
\* main loop: with a rain amount >= 0 rainToday is that amount, with an
\* error rainToday stays 0.0; in both cases the main loop is entered.
C23_StartupSeedsRain ==
    [][pc = "seed" =>
          /\ pc' = "poll"
          /\ suntec'.rainToday =
                IF newRainToday.value >= 0 THEN newRainToday.value ELSE 0]_vars

\* The download returned a rain amount, and the comparison of line 515
\* ended the program.
C23_Case ==
    /\ pc = "fatal"
    /\ newRainToday = DailyRain(FALSE, 25)
    /\ suntec.rainToday = 0

\* C24: the iteration that sees a new day of month sets rainToday to 0 and
\* leaves the previous counter value, the sample count and rainRate as they
\* were; a rain counter packet read next adds to the new day exactly the
\* tips it would have added before the reset, with no new warm-up.
C24_NewDayKeepsBaseline ==
    [][pc = "day" /\ clockDay # g_oldDayOfMonth =>
          /\ suntec'.rainToday = 0
          /\ g_oldDayOfMonth' = clockDay
          /\ g_rainCounterOld' = g_rainCounterOld
          /\ g_rainCntDataPts' = g_rainCntDataPts
          /\ suntec'.rainRate = suntec.rainRate
          /\ \A n \in PayloadsOf(ISS_RAIN_COUNT) :
                LET packet == Packet(GoodHeader, ISS_RAIN_COUNT, n)
                    before == Outcome(packet)
                    after == decodeRawData(packet, suntec', g_rainCounterOld',
                                           g_rainCntDataPts')
                IN /\ after.suntec.rainToday =
                          before.suntec.rainToday - suntec.rainToday
                   /\ after.g_rainCounterOld = before.g_rainCounterOld
                   /\ after.g_rainCntDataPts = before.g_rainCntDataPts]_vars

\* Rain was counted on the first day, with the warm-up over; the new day
\* has started with rainToday 0 and the sample count as it was.
C24_Witness ==
    /\ pc = "poll"
    /\ g_oldDayOfMonth = 2
    /\ suntec.rainToday = 0
    /\ Len(rainAdded) = 3
    /\ rainAdded[3] > 0
    /\ g_rainCntDataPts = 3

\* C25, as stated: at the end of every loop iteration the CRC streak is
\* below the threshold or the last serial reset is at most 60 s old.
C25_StreakBelowThresholdOrCooling ==
    pc = "day" =>
        \/ g_crc_fail_count < CRC_FAIL_THRESHOLD
        \/ now - g_crc_last_reset <= CRC_RESET_COOLDOWN

\* C25, amended: at the end of every loop iteration that read a complete
\* packet the CRC streak is below the threshold or the last serial reset is
\* at most 60 s old; and with the streak at the threshold or above it and
\* the cooldown over, the next CRC failure resets the port and the streak.
C25_StreakAfterPacket ==
    /\ pc = "day" /\ decodeMessage # NoMessage =>
          \/ g_crc_fail_count < CRC_FAIL_THRESHOLD
          \/ now - g_crc_last_reset <= CRC_RESET_COOLDOWN
    /\ (/\ pc = "poll"
        /\ g_crc_fail_count >= CRC_FAIL_THRESHOLD
        /\ now - g_crc_last_reset > CRC_RESET_COOLDOWN) =>
          \A packet \in {p \in LinkPackets : ~p.crcOk} :
              LET k == Track(Outcome(packet), g_crc_fail_count, now,
                             g_crc_last_reset)
              IN k.reset /\ k.count = 0

\* A CRC failure within the cooldown of the first reset has brought the
\* streak beyond the threshold.
C25_Witness ==
    /\ pc = "day"
    /\ decodeMessage.text = "Invalid CRC"
    /\ resets = 1
    /\ g_crc_fail_count > CRC_FAIL_THRESHOLD
    /\ now - g_crc_last_reset <= CRC_RESET_COOLDOWN

\* This step is the ingest of an iteration that read no complete packet.
NoPacketRead == pc = "poll" /\ pc' # "poll" /\ perfStats' = perfStats

WatchdogRun == checks' # checks

\* C27: /sbin/reboot is run only by a check that finds issues, with
\* REBOOT_ENABLED, with the failure count of this check at 3 or more and
\* with reboot_triggered false; the state file saved before it holds
\* reboot_triggered = true; and no second reboot is issued before a healthy
\* check.
C27_OneRebootPerOutage ==
    [][WatchdogRun =>
          /\ "reboot" \in did' =>
                /\ ~InGrace(now)
                /\ evaluate_health(status, now) # {}
                /\ REBOOT_ENABLED
                /\ state.consecutive_failures + 1 >= MAX_FAILURES_BEFORE_REBOOT
                /\ ~state.reboot_triggered
                /\ state'.reboot_triggered
                /\ "saved" \in did'
                /\ reboots = 0
          /\ "reboot" \in did' <=> reboots' = reboots + 1
          /\ "reboot" \in did' <=> pc' = "rebooted"
          /\ reboots' <= 1]_vars

\* After the reboot the checks go on finding issues: the fourth failure in
\* a row, with the flag set, has not rebooted again.
C27_Witness ==
    /\ reboots = 1
    /\ pc # "rebooted"
    /\ state.reboot_triggered
    /\ state.consecutive_failures = 4
    /\ issues # {}
    /\ "reboot" \notin did

C29_AlertsRespectCooldown ==
    [][WatchdogRun =>
          /\ "alert" \in did' =>
                /\ issues' # {}
                /\ now - state.last_alert_at >= ALERT_COOLDOWN_SECONDS
          /\ (issues' # {} /\ now - state.last_alert_at >= ALERT_COOLDOWN_SECONDS)
                => "alert" \in did'
          /\ "alert sent" \in did' => "alert" \in did'
          /\ state'.last_alert_at =
                IF "alert sent" \in did' THEN now ELSE state.last_alert_at
          /\ alertAt' = IF "alert sent" \in did' THEN Append(alertAt, now)
                        ELSE alertAt
          /\ \A i \in 2..Len(alertAt') :
                alertAt'[i] - alertAt'[i - 1] >= ALERT_COOLDOWN_SECONDS]_vars

\* Two alerts were sent, the second as soon as the cooldown allowed.
C29_Witness ==
    /\ Len(alertAt) = 2
    /\ alertAt[2] - alertAt[1] = ALERT_COOLDOWN_SECONDS
    /\ state.last_alert_at = alertAt[2]

\* C30: a check that finds no issues saves consecutive_failures = 0 and
\* reboot_triggered = false and tries a recovery mail exactly when the
\* saved consecutive_failures was above 0; a check that finds issues adds
\* exactly 1 to consecutive_failures and tries no recovery mail.
C30_HealthyCheckClears ==
    [][WatchdogRun /\ ~InGrace(now) =>
          IF evaluate_health(status, now) = {}
          THEN /\ state'.consecutive_failures = 0
               /\ ~state'.reboot_triggered
               /\ state'.last_alert_at = state.last_alert_at
               /\ "saved" \in did'
               /\ "recovery mail" \in did' <=> state.consecutive_failures > 0
          ELSE /\ state'.consecutive_failures = state.consecutive_failures + 1
               /\ "saved" \in did'
               /\ "recovery mail" \notin did']_vars

\* Three failures and the reboot, then a healthy check: the recovery mail
\* was tried, the count and the reboot flag are cleared.
C30_Witness ==
    /\ checks = 4
    /\ bootAt > StartTime
    /\ "recovery mail" \in did
    /\ issues = {}
    /\ state.consecutive_failures = 0
    /\ ~state.reboot_triggered
    /\ alertAt # <<>>

\* This step ends an iteration with a successful upload, with a failed one.
UploadDone == pc = "day" /\ tmr_upload' # tmr_upload
UploadFailed == pc = "day" /\ uploadTries' # uploadTries /\ tmr_upload' = tmr_upload

=============================================================================
